---- MODULE Spec2Model ----
(***************************************************************************)
(* Model of the LightWave2D time-stepping engine (FDTDSimulator, Config,   *)
(* MeshSet, FieldSet, MultiWavelength / Impulsion sources).                *)
(*                                                                         *)
(* Numbers.  A C++ double is modelled as an exact extended rational        *)
(* <<n, d>> in lowest terms with d >= 0; d = 0 encodes the IEEE specials:  *)
(* <<1,0>> = +inf, <<-1,0>> = -inf, <<0,0>> = NaN.  Rounding is not        *)
(* modelled.  Times, delays and angular frequencies are integers; an       *)
(* angular frequency counts quarter turns per time unit so that the cosine *)
(* is exact, and the Gaussian of an integer argument is taken from a table *)
(* rounded to 1/4.                                                         *)
(***************************************************************************)
EXTENDS Integers, Sequences, FiniteSets, TLC

\* ------------------------------------------------------------------ bounds
MaxNx == 3
MaxNy == 3
MaxSteps == 2
MaxRuns == 2

\* ------------------------------------------------- extended rational doubles
Abs(n) == IF n < 0 THEN -n ELSE n

RECURSIVE GCD(_, _)
GCD(a, b) == IF b = 0 THEN a ELSE GCD(b, a % b)

Norm(q) ==
    IF q[2] = 0
    THEN <<(IF q[1] > 0 THEN 1 ELSE IF q[1] < 0 THEN -1 ELSE 0), 0>>
    ELSE LET s == IF q[2] < 0 THEN -1 ELSE 1
             g == GCD(Abs(q[1]), Abs(q[2]))
         IN  <<(s * q[1]) \div g, (s * q[2]) \div g>>

R(n) == <<n, 1>>
NaN == <<0, 0>>
IsFinite(a) == a[2] # 0

RAdd(a, b) ==
    IF a[2] = 0 /\ b[2] = 0
    THEN (IF a[1] = b[1] THEN a ELSE NaN)
    ELSE IF a[2] = 0 \/ b[2] = 0
    THEN Norm(<<a[1] * b[2] + b[1] * a[2], 0>>)
    ELSE LET g == GCD(a[2], b[2])
         IN  Norm(<<a[1] * (b[2] \div g) + b[1] * (a[2] \div g),
                    a[2] * (b[2] \div g)>>)

RNeg(a) == <<-a[1], a[2]>>
RSub(a, b) == RAdd(a, RNeg(b))
RMul(a, b) == Norm(<<a[1] * b[1], a[2] * b[2]>>)

RInv(a) ==
    IF a[1] = 0 THEN (IF a[2] = 0 THEN NaN ELSE <<1, 0>>)
    ELSE IF a[1] > 0 THEN <<a[2], a[1]>>
    ELSE <<-a[2], -a[1]>>

RDiv(a, b) == RMul(a, RInv(b))

RLess(a, b) ==
    IF a = NaN \/ b = NaN THEN FALSE
    ELSE IF a[2] = 0 /\ b[2] = 0 THEN a[1] < b[1]
    ELSE a[1] * b[2] < b[1] * a[2]

\* std::clamp(v, lo, hi) == (v < lo) ? lo : (hi < v) ? hi : v
Clamp(v, lo, hi) == IF RLess(v, lo) THEN lo ELSE IF RLess(hi, v) THEN hi ELSE v

\* std::cos(k * pi / 2) for an integer k
CosQ(k) == LET m == k % 4 IN IF m = 0 THEN R(1) ELSE IF m = 2 THEN R(-1) ELSE R(0)

\* std::exp(-x) for an integer x >= 0, rounded to the nearest 1/4
ExpNeg(x) ==
    IF x = 0 THEN R(1)
    ELSE IF x \in {1, 2} THEN <<1, 4>>
    ELSE R(0)

\* ------------------------------------------------------------------- grids
Cells(nx, ny) == (0 .. nx - 1) \X (0 .. ny - 1)
Interior(nx, ny) == (1 .. nx - 2) \X (1 .. ny - 2)
IsBorder(c, nx, ny) == c[1] = 0 \/ c[1] = nx - 1 \/ c[2] = 0 \/ c[2] = ny - 1
Uniform(v, nx, ny) == [c \in Cells(nx, ny) |-> v]
BorderMap(vb, vi, nx, ny) ==
    [c \in Cells(nx, ny) |-> IF IsBorder(c, nx, ny) THEN vb ELSE vi]
Zeros(nx, ny) == Uniform(R(0), nx, ny)

\* ---------------------------------------------------------------- inputs
\* Values an uninitialised double can hold, and the contents of a freshly
\* allocated row of ny - 1 doubles: zeroed memory or stale data.
Garbage == {R(0), R(1)}
GarbageRows(ny) == {[j \in 0 .. ny - 2 |-> v] : v \in Garbage}
\* Values read from one element past the end of time_stamp.
GarbageTimes == {0, 3}

\* Arguments of set_config: dt, dx, dy, nx, ny, time_stamp.
TimeStampInputs ==
    {<<>>} \cup {[k \in 1 .. MaxSteps |-> t0 + k - 1] : t0 \in {0, 1}}

ConfigInputs ==
    {[dt |-> R(1), dx |-> R(1), dy |-> R(2), nx |-> MaxNx, ny |-> MaxNy,
      time_stamp |-> ts] : ts \in TimeStampInputs}

\* Arguments of set_geometry_mesh: epsilon, n2, gamma, sigma_x, sigma_y, mu_0.
MeshCase(eps, n2, gamma, sx, sy, mu) ==
    [epsilon |-> eps, n2 |-> n2, gamma |-> gamma, sigma_x |-> sx,
     sigma_y |-> sy, mu |-> mu]

MeshInputs ==
    LET nx == MaxNx
        ny == MaxNy
        Z == Zeros(nx, ny)
        U(v) == Uniform(v, nx, ny)
        B(vb, vi) == BorderMap(vb, vi, nx, ny)
    IN  { MeshCase(U(R(1)), Z, Z, Z, Z, R(1)),                    \* vacuum
          MeshCase(U(R(2)), U(R(1)), Z, Z, Z, R(1)),              \* dielectric, Kerr
          MeshCase(U(R(1)), Z, U(R(1)), Z, Z, R(1)),              \* SHG
          MeshCase(U(R(1)), Z, Z, B(R(1), R(0)), B(<<1, 2>>, R(0)), R(1)), \* PML
          MeshCase(U(R(2)), Z, Z, U(R(3)), U(R(6)), R(1)),        \* strong loss
          MeshCase(B(R(1), R(0)), Z, Z, Z, Z, R(1)),              \* epsilon = 0
          MeshCase(B(R(1), R(-1)), Z, Z, Z, Z, R(1)),             \* epsilon < 0
          MeshCase(U(R(1)), Z, Z, U(R(-1)), U(R(-2)), R(1)) }     \* sigma < 0

\* Sources handed to set_sources.
MultiWavelength(omega, amplitude, delay, idx) ==
    [kind |-> "MultiWavelength", omega_list |-> omega,
     amplitude_list |-> amplitude, delay_list |-> delay, indexes |-> idx]

Impulsion(amplitude, duration, delay, idx) ==
    [kind |-> "Impulsion", amplitude |-> amplitude, duration |-> duration,
     delay |-> delay, indexes |-> idx]

SourceInputs ==
    { <<>>,
      <<Impulsion(R(1), 1, 1, <<<<1, 1>>>>)>>,
      <<MultiWavelength(<<1, 2>>, <<R(1), R(2)>>, <<0, 1>>, <<<<1, 1>>, <<1, 1>>>>)>>,
      <<Impulsion(R(2), 1, 0, <<<<0, 1>>, <<1, 1>>>>),
        MultiWavelength(<<1>>, <<R(1)>>, <<0>>, <<<<1, 1>>>>)>>,
      <<Impulsion(R(1), 1, 0, <<<<1, -1>>>>)>>,
      <<Impulsion(R(1), 1, 0, <<<<1, 1>>, <<-1, 0>>>>)>> }

\* Source lists with a MultiWavelength whose vectors differ in length: the
\* amplitude and delay vectors shorter than omega, and the amplitude vector
\* longer than omega.
VectorSourceInputs ==
    { <<MultiWavelength(<<1, 2>>, <<R(1)>>, <<0>>, <<<<1, 1>>>>)>>,
      <<MultiWavelength(<<1>>, <<R(1), R(2)>>, <<0>>, <<<<1, 1>>>>)>> }

\* ----------------------------------------------------------------- state
VARIABLES
    config,        \* FDTDSimulator::config (Config)
    mesh_set,      \* FDTDSimulator::mesh_set (MeshSet)
    sources,       \* FDTDSimulator::sources
    is_set,        \* which of the three setters have been called
    field_set,     \* the FieldSet local to run: Ez, Hx, Hy
    grad,          \* gradient arrays local to the two update functions
    Ez_time,       \* the caller's recording array, one grid per row
    iteration,     \* the loop variable of run
    pc,            \* position of run: "idle", the next sub-step, or "crashed"
    runs,          \* number of calls of run that have returned
    start_iter,    \* config.iteration at entry to the current / last run
    snap,          \* Ez right after source injection, per loop iteration
    rec_rows,      \* rows of Ez_time addressed by update_field, in order
    ts_reads,      \* indices used to read time_stamp in this run
    inj_times,     \* config.time seen by the sources, per loop iteration
    steps_done,    \* sub-steps executed so far in the current loop iteration
    pre_inj,       \* the field set as the source loop of this iteration found it
    oob,           \* kinds of out-of-range accesses made by this run
    twin           \* a second simulator driven alongside (kind "none": absent)

vars == <<config, mesh_set, sources, is_set, field_set, grad, Ez_time,
          iteration, pc, runs, start_iter, snap, rec_rows,
          ts_reads, inj_times, steps_done, pre_inj, oob, twin>>

hist == <<start_iter, snap, rec_rows, ts_reads, inj_times, pre_inj>>

NoGrad == [dEz_dx |-> <<>>, dEz_dy |-> <<>>, dHy_dx |-> <<>>, dHx_dy |-> <<>>]
NoFields == [Ez |-> <<>>, Hx |-> <<>>, Hy |-> <<>>]

\* Config(dx, dy, dt, nx, ny, time_stamp): iteration = 0 and time = 0 by the
\* default member initialisers.
Config(dx, dy, dt, nx, ny, time_stamp) ==
    [dx |-> dx, dy |-> dy, dt |-> dt, nx |-> nx, ny |-> ny,
     time_stamp |-> time_stamp, iteration |-> 0, time |-> 0]

\* MeshSet(epsilon, n2, gamma, mu, sigma_x, sigma_y): stores its arguments.
MeshSet(epsilon, n2, gamma, mu, sigma_x, sigma_y) ==
    [epsilon |-> epsilon, n2 |-> n2, gamma |-> gamma, mu |-> mu,
     sigma_x |-> sigma_x, sigma_y |-> sigma_y]

\* A field set whose arrays are allocated but not zeroed.
FieldSet_not_zeroed(cfg) ==
    [Ez |-> Uniform(R(1), cfg.nx, cfg.ny), Hx |-> Uniform(R(1), cfg.nx, cfg.ny),
     Hy |-> Uniform(R(1), cfg.nx, cfg.ny)]

\* FieldSet(config): three nx-by-ny arrays, set_to_zero().
FieldSet(cfg) ==
    [Ez |-> Zeros(cfg.nx, cfg.ny), Hx |-> Zeros(cfg.nx, cfg.ny),
     Hy |-> Zeros(cfg.nx, cfg.ny)]

\* ------------------------------------------------------------------ twin
\* A second FDTDSimulator, set up by the same calls with one thing varied
\* and stepped in lockstep with the first, to compare two runs:
\*   "amplitudes": every source amplitude is doubled;
\*   "n2":         the n2 array is different at every cell;
\*   "edges":      the H cells at the grid edge that the Ez update does not
\*                 read (Hx rows 0 and nx-1, Hy columns 0 and ny-1) hold
\*                 different values after every H update;
\*   "legacy":     the second run is the free function run_fdtd, called with
\*                 the same arguments and n_steps = time_stamp.size(): it
\*                 builds its own MeshSet, Config and FieldSet and runs the
\*                 same loop body, kernel for kernel.
\* With kind "none" there is no second simulator.
TwinKinds == {"amplitudes", "n2"}

Twin(kind) ==
    [kind |-> kind,
     config |-> Config(R(0), R(0), R(0), 0, 0, <<>>),
     mesh_set |-> MeshSet(<<>>, <<>>, <<>>, R(0), <<>>, <<>>),
     sources |-> <<>>,
     field_set |-> NoFields,
     grad |-> NoGrad,
     Ez_time |-> <<>>]

EdgePerturbed(cfg, fs) ==
    [fs EXCEPT
       !.Hx = [c \in Cells(cfg.nx, cfg.ny) |->
                 IF c[1] \in {0, cfg.nx - 1} THEN RAdd(fs.Hx[c], R(1)) ELSE fs.Hx[c]],
       !.Hy = [c \in Cells(cfg.nx, cfg.ny) |->
                 IF c[2] \in {0, cfg.ny - 1} THEN RAdd(fs.Hy[c], R(1)) ELSE fs.Hy[c]]]

Doubled(src) ==
    IF src.kind = "MultiWavelength"
    THEN [src EXCEPT !.amplitude_list =
                        [j \in 1 .. Len(@) |-> RMul(R(2), @[j])]]
    ELSE [src EXCEPT !.amplitude = RMul(R(2), @)]

twin_set_config(tw, in) ==
    IF tw.kind = "none" THEN tw
    ELSE [tw EXCEPT !.config =
                       Config(in.dx, in.dy, in.dt, in.nx, in.ny, in.time_stamp)]

twin_set_geometry_mesh(tw, in) ==
    IF tw.kind = "none" THEN tw
    ELSE [tw EXCEPT !.mesh_set =
            MeshSet(in.epsilon,
                    IF tw.kind = "n2"
                    THEN [c \in DOMAIN in.n2 |-> RAdd(in.n2[c], R(1))]
                    ELSE in.n2,
                    in.gamma, in.mu, in.sigma_x, in.sigma_y)]

twin_set_sources(tw, in) ==
    IF tw.kind = "none" THEN tw
    ELSE [tw EXCEPT !.sources =
            IF tw.kind = "amplitudes"
            THEN [k \in 1 .. Len(in) |-> Doubled(in[k])]
            ELSE in]

InitSim ==
    /\ config = Config(R(0), R(0), R(0), 0, 0, <<>>)
    /\ mesh_set = MeshSet(<<>>, <<>>, <<>>, R(0), <<>>, <<>>)
    /\ sources = <<>>
    /\ is_set = [config |-> FALSE, mesh |-> FALSE, sources |-> FALSE]
    /\ field_set = NoFields
    /\ grad = NoGrad
    /\ Ez_time = <<>>
    /\ iteration = 0
    /\ pc = "idle"
    /\ runs = 0
    /\ start_iter = 0
    /\ snap = <<>>
    /\ rec_rows = <<>>
    /\ ts_reads = <<>>
    /\ inj_times = <<>>
    /\ steps_done = <<>>
    /\ pre_inj = NoFields
    /\ oob = {}

Init == InitSim /\ twin = Twin("none")

\* --------------------------------------------------------------- setters
set_config(in) ==
    /\ pc = "idle"
    /\ ~is_set.config
    /\ config' = Config(in.dx, in.dy, in.dt, in.nx, in.ny, in.time_stamp)
    /\ twin' = twin_set_config(twin, in)
    /\ is_set' = [is_set EXCEPT !.config = TRUE]
    /\ UNCHANGED <<mesh_set, sources, field_set, grad, Ez_time, iteration, pc,
                   runs, hist, steps_done, oob>>

set_geometry_mesh(in) ==
    /\ pc = "idle"
    /\ ~is_set.mesh
    /\ mesh_set' = MeshSet(in.epsilon, in.n2, in.gamma, in.mu, in.sigma_x, in.sigma_y)
    /\ twin' = twin_set_geometry_mesh(twin, in)
    /\ is_set' = [is_set EXCEPT !.mesh = TRUE]
    /\ UNCHANGED <<config, sources, field_set, grad, Ez_time, iteration, pc,
                   runs, hist, steps_done, oob>>

set_sources(in) ==
    /\ pc = "idle"
    /\ ~is_set.sources
    /\ sources' = in
    /\ twin' = twin_set_sources(twin, in)
    /\ is_set' = [is_set EXCEPT !.sources = TRUE]
    /\ UNCHANGED <<config, mesh_set, field_set, grad, Ez_time, iteration, pc,
                   runs, hist, steps_done, oob>>

\* --------------------------------------------------------------- kernels
\* compute_yee_gradients: dEz_dx is written for i in [0, nx-1), j in [0, ny);
\* dEz_dy has shape (nx, ny-1) but is written for i in [1, nx) only, so its
\* row 0 keeps whatever the fresh allocation held (g).
compute_yee_gradients(cfg, fs, g) ==
    [dEz_dx |-> [c \in (0 .. cfg.nx - 2) \X (0 .. cfg.ny - 1) |->
                    RDiv(RSub(fs.Ez[<<c[1] + 1, c[2]>>], fs.Ez[c]), cfg.dx)],
     dEz_dy |-> [c \in (0 .. cfg.nx - 1) \X (0 .. cfg.ny - 2) |->
                    IF c[1] >= 1
                    THEN RDiv(RSub(fs.Ez[<<c[1], c[2] + 1>>], fs.Ez[c]), cfg.dy)
                    ELSE g[c[2]]]]

\* The loss factor (1 - sigma * (dt / mu) / 2) of the H update.
LossFactor(sigma, cfg, mesh) ==
    RSub(R(1), RDiv(RMul(sigma, RDiv(cfg.dt, mesh.mu)), R(2)))

\* An H update whose Hy loop runs over all nx rows, the last row taking the
\* gradient of the row before it.
update_magnetic_fields_all_rows(cfg, mesh, fs, gr) ==
    [fs EXCEPT
       !.Hx = [c \in Cells(cfg.nx, cfg.ny) |->
                 IF c[2] < cfg.ny - 1
                 THEN RSub(fs.Hx[c],
                           RMul(RMul(RDiv(cfg.dt, mesh.mu), gr.dEz_dy[c]),
                                LossFactor(mesh.sigma_y[c], cfg, mesh)))
                 ELSE fs.Hx[c]],
       !.Hy = [c \in Cells(cfg.nx, cfg.ny) |->
                 LET r == IF c[1] < cfg.nx - 1 THEN c ELSE <<cfg.nx - 2, c[2]>>
                 IN  RAdd(fs.Hy[c],
                          RMul(RMul(RDiv(cfg.dt, mesh.mu), gr.dEz_dx[r]),
                               LossFactor(mesh.sigma_x[c], cfg, mesh)))]]

\* update_magnetic_fields, after the gradients: Hx on j in [0, ny-1) with
\* sigma_y, Hy on i in [0, nx-1) with sigma_x.
update_magnetic_fields(cfg, mesh, fs, gr) ==
    [fs EXCEPT
       !.Hx = [c \in Cells(cfg.nx, cfg.ny) |->
                 IF c[2] < cfg.ny - 1
                 THEN RSub(fs.Hx[c],
                           RMul(RMul(RDiv(cfg.dt, mesh.mu), gr.dEz_dy[c]),
                                LossFactor(mesh.sigma_y[c], cfg, mesh)))
                 ELSE fs.Hx[c]],
       !.Hy = [c \in Cells(cfg.nx, cfg.ny) |->
                 IF c[1] < cfg.nx - 1
                 THEN RAdd(fs.Hy[c],
                           RMul(RMul(RDiv(cfg.dt, mesh.mu), gr.dEz_dx[c]),
                                LossFactor(mesh.sigma_x[c], cfg, mesh)))
                 ELSE fs.Hy[c]]]

\* compute_magnetic_field_gradients: only the strict interior is written (and
\* only the strict interior is read by update_electric_field).
\* H gradients whose Hx difference is taken along x instead of y.
compute_magnetic_field_gradients_along_x(cfg, fs) ==
    [dHy_dx |-> [c \in Interior(cfg.nx, cfg.ny) |->
                    RDiv(RSub(fs.Hy[c], fs.Hy[<<c[1] - 1, c[2]>>]), cfg.dx)],
     dHx_dy |-> [c \in Interior(cfg.nx, cfg.ny) |->
                    RDiv(RSub(fs.Hx[c], fs.Hx[<<c[1] - 1, c[2]>>]), cfg.dy)]]

compute_magnetic_field_gradients(cfg, fs) ==
    [dHy_dx |-> [c \in Interior(cfg.nx, cfg.ny) |->
                    RDiv(RSub(fs.Hy[c], fs.Hy[<<c[1] - 1, c[2]>>]), cfg.dx)],
     dHx_dy |-> [c \in Interior(cfg.nx, cfg.ny) |->
                    RDiv(RSub(fs.Hx[c], fs.Hx[<<c[1], c[2] - 1>>]), cfg.dy)]]

\* An Ez update whose loops run over the whole grid, an edge cell taking the
\* gradients of the interior cell nearest to it.
update_electric_field_all_cells(cfg, mesh, fs, gr) ==
    [fs EXCEPT
       !.Ez = [c \in Cells(cfg.nx, cfg.ny) |->
                 LET Near(k, n) == IF k < 1 THEN 1 ELSE IF k > n - 2 THEN n - 2 ELSE k
                     r == <<Near(c[1], cfg.nx), Near(c[2], cfg.ny)>>
                 IN  RAdd(fs.Ez[c],
                          RMul(RDiv(cfg.dt, mesh.epsilon[c]),
                               RSub(gr.dHy_dx[r], gr.dHx_dy[r])))]]

\* update_electric_field, after the gradients.
update_electric_field(cfg, mesh, fs, gr) ==
    [fs EXCEPT
       !.Ez = [c \in Cells(cfg.nx, cfg.ny) |->
                 IF c \in Interior(cfg.nx, cfg.ny)
                 THEN RAdd(fs.Ez[c],
                           RMul(RDiv(cfg.dt, mesh.epsilon[c]),
                                RSub(gr.dHy_dx[c], gr.dHx_dy[c])))
                 ELSE fs.Ez[c]]]

\* apply_kerr_effect: defined by the simulator but not called by run.
apply_kerr_effect(cfg, mesh, fs) ==
    [fs EXCEPT
       !.Ez = [c \in Cells(cfg.nx, cfg.ny) |->
                 IF c \in Interior(cfg.nx, cfg.ny)
                 THEN RMul(fs.Ez[c],
                           RDiv(cfg.dt,
                                RAdd(mesh.epsilon[c],
                                     RMul(mesh.n2[c], RMul(fs.Ez[c], fs.Ez[c])))))
                 ELSE fs.Ez[c]]]

\* Step E with the commented-out call of apply_kerr_effect restored before
\* the second-harmonic term.
shg_after_kerr(cfg, mesh, fs) ==
    LET k == apply_kerr_effect(cfg, mesh, fs)
    IN  [k EXCEPT
           !.Ez = [c \in Cells(cfg.nx, cfg.ny) |->
                     RAdd(k.Ez[c],
                          RMul(RMul(mesh.gamma[c], RMul(k.Ez[c], k.Ez[c])), cfg.dt))]]

\* apply_second_harmonic_generation: every cell.
\* A second-harmonic term applied on the strict interior only, as the Kerr
\* kernel is.
apply_second_harmonic_generation_interior(cfg, mesh, fs) ==
    [fs EXCEPT
       !.Ez = [c \in Cells(cfg.nx, cfg.ny) |->
                 IF c \in Interior(cfg.nx, cfg.ny)
                 THEN RAdd(fs.Ez[c],
                           RMul(RMul(mesh.gamma[c], RMul(fs.Ez[c], fs.Ez[c])), cfg.dt))
                 ELSE fs.Ez[c]]]

apply_second_harmonic_generation(cfg, mesh, fs) ==
    [fs EXCEPT
       !.Ez = [c \in Cells(cfg.nx, cfg.ny) |->
                 RAdd(fs.Ez[c],
                      RMul(RMul(mesh.gamma[c], RMul(fs.Ez[c], fs.Ez[c])), cfg.dt))]]

\* apply_absorption: every cell, factor clamped to [0, 1].
AbsorptionFactor(c, cfg, mesh) ==
    Clamp(RSub(R(1),
               RDiv(RMul(RAdd(mesh.sigma_x[c], mesh.sigma_y[c]),
                         RDiv(cfg.dt, mesh.epsilon[c])),
                    R(2))),
          R(0), R(1))

\* An absorption whose factor is not clamped.
apply_absorption_unclamped(cfg, mesh, fs) ==
    [fs EXCEPT
       !.Ez = [c \in Cells(cfg.nx, cfg.ny) |->
                 RMul(fs.Ez[c],
                      RSub(R(1),
                           RDiv(RMul(RAdd(mesh.sigma_x[c], mesh.sigma_y[c]),
                                     RDiv(cfg.dt, mesh.epsilon[c])),
                                R(2))))]]

apply_absorption(cfg, mesh, fs) ==
    [fs EXCEPT
       !.Ez = [c \in Cells(cfg.nx, cfg.ny) |->
                 RMul(fs.Ez[c], AbsorptionFactor(c, cfg, mesh))]]

\* --------------------------------------------------------------- sources
\* Ez_rw(x, y) is an unchecked reference: element x * ny + y of the buffer.
\* An index pair outside the grid whose offset is inside the buffer lands on
\* another cell; any other offset is outside the array.
FlatOffset(idx, cfg) == idx[1] * cfg.ny + idx[2]
InGrid(idx, cfg) == idx[1] \in 0 .. cfg.nx - 1 /\ idx[2] \in 0 .. cfg.ny - 1
InBuffer(idx, cfg) == FlatOffset(idx, cfg) \in 0 .. cfg.nx * cfg.ny - 1
TargetCell(idx, cfg) ==
    <<FlatOffset(idx, cfg) \div cfg.ny, FlatOffset(idx, cfg) % cfg.ny>>

\* The amounts one source adds per index pair, in the order it adds them.
SourceTerms(src, t) ==
    IF src.kind = "MultiWavelength"
    THEN [j \in 1 .. Len(src.omega_list) |->
            RMul(src.amplitude_list[j],
                 CosQ(src.omega_list[j] * t + src.delay_list[j]))]
    ELSE LET factor == (t - src.delay) \div src.duration
         IN  <<RMul(src.amplitude, ExpNeg(factor * factor))>>

\* A hard source: Ez_rw(x, y) = term in place of Ez_rw(x, y) += term.
SetTerms(Ez, cell, terms, k) ==
    IF Len(terms) = 0 THEN Ez ELSE [Ez EXCEPT ![cell] = terms[Len(terms)]]

\* The inner loop of add_to_field: Ez_rw(x, y) += term, term after term.
RECURSIVE AddTerms(_, _, _, _)
AddTerms(Ez, cell, terms, k) ==
    IF k > Len(terms) THEN Ez
    ELSE AddTerms([Ez EXCEPT ![cell] = RAdd(@, terms[k])], cell, terms, k + 1)

RECURSIVE AddAtIndexes(_, _, _, _, _)
AddAtIndexes(Ez, src, cfg, terms, i) ==
    IF i > Len(src.indexes) THEN Ez
    ELSE AddAtIndexes(
           IF InBuffer(src.indexes[i], cfg)
           THEN AddTerms(Ez, TargetCell(src.indexes[i], cfg), terms, 1)
           ELSE Ez,
           src, cfg, terms, i + 1)

\* MultiWavelength::add_to_field / Impulsion::add_to_field
add_to_field(src, cfg, fs) ==
    [fs EXCEPT !.Ez = AddAtIndexes(fs.Ez, src, cfg, SourceTerms(src, cfg.time), 1)]

\* for (auto& source : sources) source->add_to_field(config, field_set);
RECURSIVE AddSources(_, _, _, _)
AddSources(srcs, cfg, fs, k) ==
    IF k > Len(srcs) THEN fs
    ELSE AddSources(srcs, cfg, add_to_field(srcs[k], cfg, fs), k + 1)

\* MultiWavelength::add_to_field runs j over omega_list and reads
\* amplitude_list_r(j) and delay_list_r(j) unchecked: with a shorter vector
\* the read is past its end and yields whatever lies there (g).
ReadsPastEnd(src) ==
    /\ src.kind = "MultiWavelength"
    /\ \/ Len(src.amplitude_list) < Len(src.omega_list)
       \/ Len(src.delay_list) < Len(src.omega_list)

SourceGarbage(srcs) ==
    IF \E k \in 1 .. Len(srcs) : ReadsPastEnd(srcs[k]) THEN {0, 1} ELSE {0}

\* The sources as one pass of the source loop reads them.
AsRead(srcs, g) ==
    [k \in 1 .. Len(srcs) |->
        IF ReadsPastEnd(srcs[k])
        THEN [srcs[k] EXCEPT
                !.amplitude_list =
                    [j \in 1 .. Len(srcs[k].omega_list) |->
                        IF j <= Len(srcs[k].amplitude_list)
                        THEN srcs[k].amplitude_list[j] ELSE R(g)],
                !.delay_list =
                    [j \in 1 .. Len(srcs[k].omega_list) |->
                        IF j <= Len(srcs[k].delay_list)
                        THEN srcs[k].delay_list[j] ELSE g]]
        ELSE srcs[k]]

AllIndexes(srcs) ==
    UNION {{srcs[k].indexes[i] : i \in 1 .. Len(srcs[k].indexes)} : k \in 1 .. Len(srcs)}

\* ------------------------------------------------------------- recording
\* update_field with the row index stuck at 0.
update_field_row0(Et, cfg, fs) ==
    IF Len(Et) > 0 THEN [Et EXCEPT ![1] = fs.Ez] ELSE Et

\* update_field: row config.iteration of Ez_time := Ez.  A row index outside
\* the array addresses memory past its end.
update_field(Et, cfg, fs) ==
    IF cfg.iteration \in 0 .. Len(Et) - 1
    THEN [Et EXCEPT ![cfg.iteration + 1] = fs.Ez]
    ELSE Et

\* An advance that consumes the time stamp it has used.
next_consuming(cfg, g) ==
    [cfg EXCEPT !.iteration = cfg.iteration + 1,
                !.time = IF Len(cfg.time_stamp) > 1 THEN cfg.time_stamp[2] ELSE g,
                !.time_stamp = IF Len(cfg.time_stamp) > 0 THEN Tail(cfg.time_stamp)
                               ELSE cfg.time_stamp]

\* Config::next: iteration += 1; time = time_stamp[iteration] with no range
\* check; g is what the read yields when the index is past the end.
next(cfg, g) ==
    [cfg EXCEPT !.iteration = cfg.iteration + 1,
                !.time = IF cfg.iteration + 1 < Len(cfg.time_stamp)
                         THEN cfg.time_stamp[cfg.iteration + 2]
                         ELSE g]

\* ------------------------------------------------------------- FDTDSimulator::run
\* The body of the time-stepping loop, in program order: the two halves of
\* update_magnetic_fields (A, B), the two halves of update_electric_field
\* (C, D), apply_second_harmonic_generation (E), apply_absorption (F), the
\* loop over the sources (G), update_field (H), config.next() (I).
NextPc_absorb_first(p) ==
    CASE p = "A" -> "B"
      [] p = "B" -> "C"
      [] p = "C" -> "D"
      [] p = "D" -> "F"
      [] p = "F" -> "E"
      [] p = "E" -> "G"
      [] p = "G" -> "H"
      [] p = "H" -> "I"
      [] p = "I" -> "A"

NextPc(p) ==
    CASE p = "A" -> "B"
      [] p = "B" -> "C"
      [] p = "C" -> "D"
      [] p = "D" -> "E"
      [] p = "E" -> "F"
      [] p = "F" -> "G"
      [] p = "G" -> "H"
      [] p = "H" -> "I"
      [] p = "I" -> "A"

StepPcs == {"A", "B", "C", "D", "E", "F", "G", "H", "I"}

\* The arrays handed to run: time_stamp.size() rows or one row fewer, each
\* row an nx-by-ny grid of zeros.
RowInputs(cfg) ==
    {r \in {Len(cfg.time_stamp) - 1, Len(cfg.time_stamp)} : r >= 0}

\* The second simulator's run, entered and stepped together with the first:
\* the same code on its own config, mesh, sources, fields and Ez_time.
twin_run(tw, rows) ==
    IF tw.kind = "none" THEN tw
    ELSE [tw EXCEPT
            !.Ez_time = [k \in 1 .. rows |-> Zeros(tw.config.nx, tw.config.ny)],
            !.grad = NoGrad,
            !.field_set = IF 0 < Len(tw.config.time_stamp)
                          THEN FieldSet(tw.config) ELSE NoFields]

twin_step(tw, p, g2) ==
    IF tw.kind = "none" THEN tw
    ELSE CASE p = "A" ->
                [tw EXCEPT !.grad = [@ EXCEPT
                   !.dEz_dx = compute_yee_gradients(tw.config, tw.field_set, g2).dEz_dx,
                   !.dEz_dy = compute_yee_gradients(tw.config, tw.field_set, g2).dEz_dy]]
           [] p = "B" ->
                [tw EXCEPT
                   !.field_set =
                       IF tw.kind = "edges"
                       THEN EdgePerturbed(tw.config,
                                update_magnetic_fields(tw.config, tw.mesh_set,
                                                       tw.field_set, tw.grad))
                       ELSE update_magnetic_fields(tw.config, tw.mesh_set,
                                                   tw.field_set, tw.grad),
                   !.grad = NoGrad]
           [] p = "C" ->
                [tw EXCEPT !.grad = [@ EXCEPT
                   !.dHy_dx = compute_magnetic_field_gradients(tw.config, tw.field_set).dHy_dx,
                   !.dHx_dy = compute_magnetic_field_gradients(tw.config, tw.field_set).dHx_dy]]
           [] p = "D" ->
                [tw EXCEPT
                   !.field_set = update_electric_field(tw.config, tw.mesh_set,
                                                       tw.field_set, tw.grad),
                   !.grad = NoGrad]
           [] p = "E" ->
                [tw EXCEPT !.field_set =
                   apply_second_harmonic_generation(tw.config, tw.mesh_set, tw.field_set)]
           [] p = "F" ->
                [tw EXCEPT !.field_set =
                   apply_absorption(tw.config, tw.mesh_set, tw.field_set)]
           [] p = "G" ->
                [tw EXCEPT !.field_set =
                   AddSources(AsRead(tw.sources, g2), tw.config, tw.field_set, 1)]
           [] p = "H" ->
                [tw EXCEPT !.Ez_time = update_field(tw.Ez_time, tw.config, tw.field_set)]
           [] p = "I" ->
                [tw EXCEPT
                   !.config = next(tw.config, g2),
                   !.field_set = IF iteration + 1 < Len(tw.config.time_stamp)
                                 THEN @ ELSE NoFields]

\* What the second simulator's uninitialised reads can yield.
TwinGarbageRows ==
    IF twin.kind = "none" THEN {0} ELSE GarbageRows(twin.config.ny)

TwinSourceGarbage ==
    IF twin.kind = "none" THEN {0} ELSE SourceGarbage(twin.sources)

TwinGarbageTimes ==
    IF twin.kind = "none" \/ twin.config.iteration + 1 < Len(twin.config.time_stamp)
    THEN {0} ELSE GarbageTimes

\* Entry to run: the FieldSet is built; the loop test is evaluated once.
run(rows) ==
    /\ pc = "idle"
    /\ is_set.config /\ is_set.mesh /\ is_set.sources
    /\ runs < MaxRuns
    /\ twin.kind = "none" \/ runs = 0    \* two simulators are compared over one run each
    /\ Ez_time' = [k \in 1 .. rows |-> Zeros(config.nx, config.ny)]
    /\ iteration' = 0
    /\ start_iter' = config.iteration
    /\ snap' = <<>>
    /\ rec_rows' = <<>>
    /\ ts_reads' = <<>>
    /\ inj_times' = <<>>
    /\ steps_done' = <<>>
    /\ pre_inj' = NoFields
    /\ grad' = NoGrad
    /\ IF 0 < Len(config.time_stamp)
       THEN /\ pc' = "A"
            /\ field_set' = FieldSet(config)
            /\ runs' = runs
       ELSE /\ pc' = "idle"
            /\ field_set' = NoFields
            /\ runs' = runs + 1
    /\ oob' = {}
    /\ twin' = twin_run(twin, rows)
    /\ UNCHANGED <<config, mesh_set, sources, is_set>>

Step_A(g, g2) ==
    /\ pc = "A"
    /\ twin' = twin_step(twin, "A", g2)
    /\ steps_done' = Append(steps_done, "A")
    /\ grad' = [grad EXCEPT
                  !.dEz_dx = compute_yee_gradients(config, field_set, g).dEz_dx,
                  !.dEz_dy = compute_yee_gradients(config, field_set, g).dEz_dy]
    /\ pc' = NextPc(pc)
    /\ UNCHANGED <<config, mesh_set, sources, is_set, field_set, Ez_time,
                   iteration, runs, hist, oob>>

Step_B ==
    /\ pc = "B"
    /\ twin' = twin_step(twin, "B", 0)
    /\ steps_done' = Append(steps_done, "B")
    /\ field_set' = update_magnetic_fields(config, mesh_set, field_set, grad)
    /\ grad' = NoGrad
    /\ pc' = NextPc(pc)
    /\ UNCHANGED <<config, mesh_set, sources, is_set, Ez_time, iteration, runs,
                   hist, oob>>

Step_C ==
    /\ pc = "C"
    /\ twin' = twin_step(twin, "C", 0)
    /\ steps_done' = Append(steps_done, "C")
    /\ grad' = [grad EXCEPT
                  !.dHy_dx = compute_magnetic_field_gradients(config, field_set).dHy_dx,
                  !.dHx_dy = compute_magnetic_field_gradients(config, field_set).dHx_dy]
    /\ pc' = NextPc(pc)
    /\ UNCHANGED <<config, mesh_set, sources, is_set, field_set, Ez_time,
                   iteration, runs, hist, oob>>

Step_D ==
    /\ pc = "D"
    /\ twin' = twin_step(twin, "D", 0)
    /\ steps_done' = Append(steps_done, "D")
    /\ field_set' = update_electric_field(config, mesh_set, field_set, grad)
    /\ grad' = NoGrad
    /\ pc' = NextPc(pc)
    /\ UNCHANGED <<config, mesh_set, sources, is_set, Ez_time, iteration, runs,
                   hist, oob>>

Step_E ==
    /\ pc = "E"
    /\ twin' = twin_step(twin, "E", 0)
    /\ steps_done' = Append(steps_done, "E")
    /\ field_set' = apply_second_harmonic_generation(config, mesh_set, field_set)
    /\ pc' = NextPc(pc)
    /\ UNCHANGED <<config, mesh_set, sources, is_set, grad, Ez_time, iteration,
                   runs, hist, oob>>

Step_F ==
    /\ pc = "F"
    /\ twin' = twin_step(twin, "F", 0)
    /\ steps_done' = Append(steps_done, "F")
    /\ field_set' = apply_absorption(config, mesh_set, field_set)
    /\ pc' = NextPc(pc)
    /\ UNCHANGED <<config, mesh_set, sources, is_set, grad, Ez_time, iteration,
                   runs, hist, oob>>

\* An access outside the array either goes unnoticed or kills the process.
AfterAccess(inside, p) == IF inside THEN {p} ELSE {p, "crashed"}

Step_G(g, g2) ==
    /\ pc = "G"
    /\ twin' = twin_step(twin, "G", g2)
    /\ steps_done' = Append(steps_done, "G")
    /\ field_set' = AddSources(AsRead(sources, g), config, field_set, 1)
    /\ snap' = Append(snap, field_set'.Ez)
    /\ inj_times' = Append(inj_times, config.time)
    /\ pre_inj' = field_set
    /\ oob' = oob \cup (IF \A idx \in AllIndexes(sources) : InGrid(idx, config)
                         THEN {} ELSE {"source"})
                   \cup (IF \E k \in 1 .. Len(sources) : ReadsPastEnd(sources[k])
                         THEN {"source vector"} ELSE {})
    /\ pc' \in AfterAccess(/\ \A idx \in AllIndexes(sources) : InBuffer(idx, config)
                           /\ \A k \in 1 .. Len(sources) : ~ReadsPastEnd(sources[k]),
                           NextPc(pc))
    /\ UNCHANGED <<config, mesh_set, sources, is_set, grad, Ez_time, iteration,
                   runs, start_iter, rec_rows, ts_reads>>

Step_H ==
    /\ pc = "H"
    /\ twin' = twin_step(twin, "H", 0)
    /\ steps_done' = Append(steps_done, "H")
    /\ Ez_time' = update_field(Ez_time, config, field_set)
    /\ rec_rows' = Append(rec_rows, config.iteration)
    /\ oob' = IF config.iteration < Len(Ez_time) THEN oob ELSE oob \cup {"Ez_time"}
    /\ pc' \in AfterAccess(config.iteration < Len(Ez_time), NextPc(pc))
    /\ UNCHANGED <<config, mesh_set, sources, is_set, field_set, grad, iteration,
                   runs, start_iter, snap, ts_reads, inj_times, pre_inj>>

\* config.next(), then ++iteration and the loop test; run returns when the
\* test fails.
Step_I(g, g2) ==
    /\ pc = "I"
    /\ twin' = twin_step(twin, "I", g2)
    /\ steps_done' = <<>>
    /\ pre_inj' = NoFields
    /\ config' = next(config, g)
    /\ ts_reads' = Append(ts_reads, config.iteration + 1)
    /\ oob' = IF config.iteration + 1 < Len(config.time_stamp)
              THEN oob ELSE oob \cup {"time_stamp"}
    /\ iteration' = iteration + 1
    /\ IF iteration + 1 < Len(config.time_stamp)
       THEN /\ pc' = NextPc(pc)
            /\ UNCHANGED <<field_set, runs>>
       ELSE /\ pc' = "idle"
            /\ field_set' = NoFields
            /\ runs' = runs + 1
    /\ UNCHANGED <<mesh_set, sources, is_set, grad, Ez_time,
                   start_iter, snap, rec_rows, inj_times>>

\* Everything but the call of set_sources.
NextOther ==
    \/ \E in \in ConfigInputs : set_config(in)
    \/ \E in \in MeshInputs : set_geometry_mesh(in)
    \/ \E rows \in RowInputs(config) : run(rows)
    \/ \E g \in GarbageRows(config.ny), g2 \in TwinGarbageRows : Step_A(g, g2)
    \/ Step_B
    \/ Step_C
    \/ Step_D
    \/ Step_E
    \/ Step_F
    \/ \E g \in SourceGarbage(sources), g2 \in TwinSourceGarbage : Step_G(g, g2)
    \/ Step_H
    \/ \E g \in (IF config.iteration + 1 < Len(config.time_stamp)
                 THEN {0} ELSE GarbageTimes), g2 \in TwinGarbageTimes : Step_I(g, g2)

Next ==
    \/ \E in \in SourceInputs : set_sources(in)
    \/ NextOther

Spec == Init /\ [][Next]_vars

\* The simulator given MultiWavelength sources with vectors of unequal length.
NextVectors ==
    \/ \E in \in VectorSourceInputs : set_sources(in)
    \/ NextOther

SpecVectors == Init /\ [][NextVectors]_vars

\* Two simulators side by side.
InitTwin == InitSim /\ twin \in {Twin(k) : k \in TwinKinds}

SpecTwin == InitTwin /\ [][Next]_vars

\* FDTDSimulator::run beside run_fdtd.
InitLegacy == InitSim /\ twin = Twin("legacy")
SpecLegacy == InitLegacy /\ [][Next]_vars

\* Two simulators that differ in the unread H edge cells only.
InitEdges == InitSim /\ twin = Twin("edges")
SpecEdges == InitEdges /\ [][Next]_vars

\* ------------------------------------------------------- parallel loops
\* The loop nests of sub-steps A to F, one loop iteration (i, j) at a time.
\* Each carries "#pragma omp parallel for collapse(2)", so its iterations run
\* in no fixed order, and each works in place on the arrays of the step:
\* Ez, Hx, Hy and the four gradient arrays.
Mem(fs, gr) ==
    [Ez |-> fs.Ez, Hx |-> fs.Hx, Hy |-> fs.Hy,
     dEz_dx |-> gr.dEz_dx, dEz_dy |-> gr.dEz_dy,
     dHy_dx |-> gr.dHy_dx, dHx_dy |-> gr.dHx_dy]

Loops == {"dEz_dx", "dEz_dy", "Hx", "Hy", "dHy_dx", "dHx_dy", "Ez", "shg",
          "absorption"}

\* The bounds <<i0, i1, j0, j1>> of a loop nest: i in [i0, i1), j in [j0, j1).
LoopRange(loop, cfg) ==
    CASE loop = "dEz_dx" -> <<0, cfg.nx - 1, 0, cfg.ny>>
      [] loop = "dEz_dy" -> <<1, cfg.nx, 0, cfg.ny - 1>>
      [] loop = "Hx" -> <<0, cfg.nx, 0, cfg.ny - 1>>
      [] loop = "Hy" -> <<0, cfg.nx - 1, 0, cfg.ny>>
      [] loop \in {"dHy_dx", "dHx_dy", "Ez"} -> <<1, cfg.nx - 1, 1, cfg.ny - 1>>
      [] loop \in {"shg", "absorption"} -> <<0, cfg.nx, 0, cfg.ny>>

LoopCells(loop, cfg) ==
    LET r == LoopRange(loop, cfg)
    IN  (r[1] .. r[2] - 1) \X (r[3] .. r[4] - 1)

\* The array elements iteration c = (i, j) of a loop stores to and loads from.
Writes(loop, c) ==
    CASE loop \in {"dEz_dx", "dEz_dy", "Hx", "Hy", "dHy_dx", "dHx_dy", "Ez"} ->
            {<<loop, c>>}
      [] loop \in {"shg", "absorption"} -> {<<"Ez", c>>}

Reads(loop, c) ==
    CASE loop = "dEz_dx" -> {<<"Ez", <<c[1] + 1, c[2]>>>>, <<"Ez", c>>}
      [] loop = "dEz_dy" -> {<<"Ez", <<c[1], c[2] + 1>>>>, <<"Ez", c>>}
      [] loop = "Hx" -> {<<"Hx", c>>, <<"dEz_dy", c>>, <<"sigma_y", c>>}
      [] loop = "Hy" -> {<<"Hy", c>>, <<"dEz_dx", c>>, <<"sigma_x", c>>}
      [] loop = "dHy_dx" -> {<<"Hy", c>>, <<"Hy", <<c[1] - 1, c[2]>>>>}
      [] loop = "dHx_dy" -> {<<"Hx", c>>, <<"Hx", <<c[1], c[2] - 1>>>>}
      [] loop = "Ez" -> {<<"Ez", c>>, <<"epsilon", c>>, <<"dHy_dx", c>>,
                         <<"dHx_dy", c>>}
      [] loop = "shg" -> {<<"Ez", c>>, <<"gamma", c>>}
      [] loop = "absorption" -> {<<"Ez", c>>, <<"sigma_x", c>>, <<"sigma_y", c>>,
                                 <<"epsilon", c>>}

\* The second-harmonic loop with an index slip: the intensity is taken from
\* the cell before (i, j) in the row.
body_shg_slip(cfg, mesh, m, c) ==
    LET b == IF c[2] > 0 THEN <<c[1], c[2] - 1>> ELSE c
    IN  [m EXCEPT !.Ez[c] =
           RAdd(@, RMul(RMul(mesh.gamma[c], RMul(m.Ez[b], m.Ez[b])), cfg.dt))]

body_shg(cfg, mesh, m, c) ==
    [m EXCEPT !.Ez[c] =
       RAdd(@, RMul(RMul(mesh.gamma[c], RMul(m.Ez[c], m.Ez[c])), cfg.dt))]

\* The body of a loop nest, executed for iteration c on the arrays m.
LoopBody(loop, cfg, mesh, m, c) ==
    CASE loop = "dEz_dx" ->
            [m EXCEPT !.dEz_dx[c] =
               RDiv(RSub(m.Ez[<<c[1] + 1, c[2]>>], m.Ez[c]), cfg.dx)]
      [] loop = "dEz_dy" ->
            [m EXCEPT !.dEz_dy[c] =
               RDiv(RSub(m.Ez[<<c[1], c[2] + 1>>], m.Ez[c]), cfg.dy)]
      [] loop = "Hx" ->
            [m EXCEPT !.Hx[c] =
               RSub(@, RMul(RMul(RDiv(cfg.dt, mesh.mu), m.dEz_dy[c]),
                            LossFactor(mesh.sigma_y[c], cfg, mesh)))]
      [] loop = "Hy" ->
            [m EXCEPT !.Hy[c] =
               RAdd(@, RMul(RMul(RDiv(cfg.dt, mesh.mu), m.dEz_dx[c]),
                            LossFactor(mesh.sigma_x[c], cfg, mesh)))]
      [] loop = "dHy_dx" ->
            [m EXCEPT !.dHy_dx[c] =
               RDiv(RSub(m.Hy[c], m.Hy[<<c[1] - 1, c[2]>>]), cfg.dx)]
      [] loop = "dHx_dy" ->
            [m EXCEPT !.dHx_dy[c] =
               RDiv(RSub(m.Hx[c], m.Hx[<<c[1], c[2] - 1>>]), cfg.dy)]
      [] loop = "Ez" ->
            [m EXCEPT !.Ez[c] =
               RAdd(@, RMul(RDiv(cfg.dt, mesh.epsilon[c]),
                            RSub(m.dHy_dx[c], m.dHx_dy[c])))]
      [] loop = "shg" -> body_shg(cfg, mesh, m, c)
      [] loop = "absorption" ->
            [m EXCEPT !.Ez[c] = RMul(@, AbsorptionFactor(c, cfg, mesh))]

\* ================================================================ claims
N_steps == Len(config.time_stamp)

\* C1: after a run that started with config.iteration = 0 and an Ez_time of
\* N_steps rows returns, row k of Ez_time equals, cell by cell, the Ez that
\* the field set held right after the sources were injected in iteration k.
C1_RecordingConsistency ==
    (pc = "idle" /\ runs > 0 /\ start_iter = 0 /\ Len(Ez_time) = N_steps)
        => /\ Len(snap) = N_steps
           /\ \A k \in 1 .. N_steps : Ez_time[k] = snap[k]

C1_Witness ==
    /\ pc = "idle" /\ runs > 0 /\ start_iter = 0 /\ Len(Ez_time) = N_steps
    /\ N_steps >= 2
    /\ Ez_time[1] # Ez_time[2]
    /\ Ez_time[2] = snap[2]
    /\ Ez_time[2] # Zeros(config.nx, config.ny)

\* C2: at every point of a run the sub-steps executed so far in the current
\* iteration are exactly those that precede the next one in the order A, B,
\* C, D, E, F, G, H, I; iteration k starts only after k recordings (H) and k
\* time advances (I) have finished; B uses gradients of the Ez that A saw and
\* D uses gradients of the H that B completed.
C2_Order == <<"A", "B", "C", "D", "E", "F", "G", "H", "I">>

C2_Barrier ==
    /\ pc = "B" =>
         \A c \in (0 .. config.nx - 2) \X (0 .. config.ny - 1) :
            grad.dEz_dx[c] =
               RDiv(RSub(field_set.Ez[<<c[1] + 1, c[2]>>], field_set.Ez[c]), config.dx)
    /\ pc = "D" =>
         \A c \in Interior(config.nx, config.ny) :
            /\ grad.dHy_dx[c] =
                 RDiv(RSub(field_set.Hy[c], field_set.Hy[<<c[1] - 1, c[2]>>]), config.dx)
            /\ grad.dHx_dy[c] =
                 RDiv(RSub(field_set.Hx[c], field_set.Hx[<<c[1], c[2] - 1>>]), config.dy)

C2_SubStepOrder ==
    /\ pc \in StepPcs =>
         \E n \in 0 .. Len(C2_Order) - 1 :
            /\ pc = C2_Order[n + 1]
            /\ steps_done = SubSeq(C2_Order, 1, n)
    /\ pc \in StepPcs =>
         /\ Len(ts_reads) = iteration
         /\ Len(rec_rows) = iteration + (IF pc = "I" THEN 1 ELSE 0)
    /\ C2_Barrier

C2_Witness ==
    /\ pc = "A" /\ iteration >= 1
    /\ field_set.Ez # Zeros(config.nx, config.ny)

\* C3: a run whose Ez_time does not have N_steps rows executes no step: no
\* sub-step is taken, no row is addressed and the step counter stays 0.
C3_ShapeMismatchRejected ==
    (is_set.config /\ Len(Ez_time) # N_steps)
        => /\ pc \notin (StepPcs \ {"A"}) \cup {"crashed"}
           /\ rec_rows = <<>>
           /\ config.iteration = 0

\* C4: every index used to read time_stamp during a run is below N_steps
\* (there is no advance after the last step).
C4_TimeStampReadsInRange ==
    \A k \in 1 .. Len(ts_reads) : ts_reads[k] < N_steps

\* C5: an advance either lands on an index below N_steps and sets time to
\* the time stamp at that index, or is refused (the counter does not move).
C5_AdvanceChecked ==
    [][config'.iteration # config.iteration
          => /\ config'.iteration = config.iteration + 1
             /\ config'.iteration < Len(config'.time_stamp)
             /\ config'.time = config'.time_stamp[config'.iteration + 1]]_vars

\* C6: in every iteration k of a run the sources are injected with
\* config.time = time_stamps[k].
C6_InjectionAtTimeStamp ==
    \A k \in 1 .. Len(inj_times) :
        k <= N_steps /\ inj_times[k] = config.time_stamp[k]

\* C7: a run addresses row k of Ez_time in iteration k and no other row, in
\* increasing order, and it returns after N_steps iterations.
C7_RowsInOrder ==
    /\ \A k \in 1 .. Len(rec_rows) : rec_rows[k] = k - 1
    /\ (pc = "idle" /\ runs > 0) => Len(rec_rows) = N_steps /\ iteration = N_steps

\* C8: no injection touches memory outside the grid: a source with an index
\* pair outside [0,nx) x [0,ny) never gets to inject.
C8_SourceOutOfBoundsRejected ==
    "source" \notin oob

\* C9: whenever a step executes, epsilon > 0 and sigma_x, sigma_y >= 0 at
\* every cell.
C9_MeshValidated ==
    pc \in StepPcs =>
        \A c \in Cells(config.nx, config.ny) :
            /\ RLess(R(0), mesh_set.epsilon[c])
            /\ ~RLess(mesh_set.sigma_x[c], R(0))
            /\ ~RLess(mesh_set.sigma_y[c], R(0))

\* C10: whenever the H update executes, the factor (1 - sigma*dt/(2*mu)) is
\* not negative at any cell, for sigma_x and for sigma_y.
C10_LossFactorNonNegative ==
    pc = "B" =>
        \A c \in Cells(config.nx, config.ny) :
            /\ ~RLess(LossFactor(mesh_set.sigma_x[c], config, mesh_set), R(0))
            /\ ~RLess(LossFactor(mesh_set.sigma_y[c], config, mesh_set), R(0))

\* C11: no iteration starts with a non-finite value in Ez, Hx or Hy: a step
\* that leaves one behind is the last step of its run.
FieldsFinite ==
    \A c \in Cells(config.nx, config.ny) :
        /\ IsFinite(field_set.Ez[c])
        /\ IsFinite(field_set.Hx[c])
        /\ IsFinite(field_set.Hy[c])

C11_NonFiniteAborts ==
    (pc = "A" /\ iteration >= 1) => FieldsFinite

\* C12: whenever a step executes, time_stamp is strictly increasing and dt
\* satisfies dt^2 * (1/dx^2 + 1/dy^2) <= mu * epsilon_0, the CFL bound with
\* c = 1/sqrt(mu * epsilon_0) and epsilon_0 the permittivity at the corner
\* cell of the grid.
StrictlyIncreasing(ts) == \A k \in 1 .. Len(ts) - 1 : ts[k] < ts[k + 1]

CFL(cfg, mesh) ==
    ~RLess(RMul(mesh.mu, mesh.epsilon[<<0, 0>>]),
           RMul(RMul(cfg.dt, cfg.dt),
                RAdd(RInv(RMul(cfg.dx, cfg.dx)), RInv(RMul(cfg.dy, cfg.dy)))))

C12_RunStartValidation ==
    pc \in StepPcs =>
        /\ StrictlyIncreasing(config.time_stamp)
        /\ CFL(config, mesh_set)

\* The amount the sources add to cell c at time t: each source adds the sum
\* of its terms once per occurrence of c in its index list.
RECURSIVE SumSeq(_, _)
SumSeq(seq, k) == IF k = 0 THEN R(0) ELSE RAdd(SumSeq(seq, k - 1), seq[k])

Occurrences(src, c) ==
    Cardinality({i \in 1 .. Len(src.indexes) : src.indexes[i] = c})

SourceAmount(src, t, c) ==
    RMul(R(Occurrences(src, c)), SumSeq(SourceTerms(src, t), Len(SourceTerms(src, t))))

RECURSIVE InjectedAt(_, _, _, _)
InjectedAt(srcs, t, c, k) ==
    IF k = 0 THEN R(0)
    ELSE RAdd(InjectedAt(srcs, t, c, k - 1), SourceAmount(srcs[k], t, c))

\* C13: once the first iteration of a run has recorded, row 0 of Ez_time
\* holds at every cell exactly what the sources injected into that cell in
\* that iteration, and 0 at every cell that is in no source's index list.
C13_FirstRowIsInjection ==
    (Len(rec_rows) >= 1 /\ Len(Ez_time) >= 1) =>
        \A c \in Cells(config.nx, config.ny) :
            Ez_time[1][c] = InjectedAt(sources, inj_times[1], c, Len(sources))

\* C14: after the source loop of an iteration, Ez at every cell is the value
\* the loop found there plus what the sources add to that cell (each source's
\* sum of terms, once per occurrence of the cell in its index list; nothing
\* at a cell in no index list), and Hx and Hy are as the loop found them.
InjectionTime == inj_times[Len(inj_times)]

C14_SoftInjection ==
    pre_inj # NoFields =>
        /\ \A c \in Cells(config.nx, config.ny) :
              field_set.Ez[c] =
                 RAdd(pre_inj.Ez[c],
                      InjectedAt(sources, InjectionTime, c, Len(sources)))
        /\ field_set.Hx = pre_inj.Hx
        /\ field_set.Hy = pre_inj.Hy

\* C15: after the source loop of an iteration, Ez is what the loop would
\* have produced with the sources taken in any other order, and at every
\* cell it is the value the loop found plus the sum of what each source,
\* applied alone to a zero field, puts into that cell.
Permuted(srcs, p) == [k \in 1 .. Len(srcs) |-> srcs[p[k]]]

Alone(src, cfg) == add_to_field(src, cfg, FieldSet(cfg)).Ez

RECURSIVE SumAlone(_, _, _, _)
SumAlone(srcs, cfg, c, k) ==
    IF k = 0 THEN R(0)
    ELSE RAdd(SumAlone(srcs, cfg, c, k - 1), Alone(srcs[k], cfg)[c])

ConfigParams(cfg) ==
    <<cfg.dx, cfg.dy, cfg.dt, cfg.nx, cfg.ny, cfg.time_stamp>>

C19_PaddingZero ==
    field_set # NoFields =>
        /\ \A i \in 0 .. config.nx - 1 : field_set.Hx[<<i, config.ny - 1>>] = R(0)
        /\ \A j \in 0 .. config.ny - 1 : field_set.Hy[<<config.nx - 1, j>>] = R(0)

C19_Witness ==
    /\ pc = "C" /\ iteration >= 1
    /\ \E c \in Cells(config.nx, config.ny) : field_set.Hx[c] # R(0)
    /\ \E c \in Cells(config.nx, config.ny) : field_set.Hy[c] # R(0)
    /\ \E j \in 0 .. config.ny - 1 :
          field_set.Ez[<<config.nx - 1, j>>] # field_set.Ez[<<config.nx - 2, j>>]

\* C16: of two simulators set up alike except that every source amplitude
\* of the second is twice that of the first, with gamma = 0 at every cell,
\* the second records in every row and cell of Ez_time twice what the first
\* records there.
GammaZero ==
    \A c \in Cells(config.nx, config.ny) : mesh_set.gamma[c] = R(0)

C16_Linearity ==
    (twin.kind = "amplitudes" /\ is_set.config /\ is_set.mesh /\ GammaZero) =>
        /\ Len(twin.Ez_time) = Len(Ez_time)
        /\ \A k \in 1 .. Len(Ez_time) :
              \A c \in Cells(config.nx, config.ny) :
                 twin.Ez_time[k][c] = RMul(R(2), Ez_time[k][c])

C16_Witness ==
    /\ twin.kind = "amplitudes" /\ is_set.config /\ is_set.mesh /\ GammaZero
    /\ pc = "idle" /\ runs > 0
    /\ Len(Ez_time) >= 2
    /\ Ez_time[2] # Ez_time[1]
    /\ \E c \in Cells(config.nx, config.ny) :
          /\ IsFinite(Ez_time[2][c])
          /\ Ez_time[2][c] # R(0)
          /\ mesh_set.sigma_x[c] # R(0)

\* C17: of two simulators set up alike except for the n2 array, both hold
\* the same Ez, Hx and Hy after every sub-step and record the same Ez_time.
C17_N2NoInfluence ==
    twin.kind = "n2" =>
        /\ twin.Ez_time = Ez_time
        /\ twin.field_set = field_set

\* Orders in which the iterations of a collapsed loop nest are executed here:
\* row by row and the same backwards, so that every two iterations of a loop
\* are executed in both relative orders.
OrderKinds == {"rows", "backwards"}

LoopCount(loop, cfg) ==
    LET r == LoopRange(loop, cfg)
    IN  IF r[2] > r[1] /\ r[4] > r[3] THEN (r[2] - r[1]) * (r[4] - r[3]) ELSE 0

\* The k-th iteration (k from 0) executed under an order.
LoopOrder(loop, cfg, kind, k) ==
    LET r == LoopRange(loop, cfg)
        h == r[2] - r[1]
        w == r[4] - r[3]
    IN  CASE kind = "rows" -> <<r[1] + (k \div w), r[3] + (k % w)>>
          [] kind = "backwards" ->
                <<r[1] + ((h * w - 1 - k) \div w), r[3] + ((h * w - 1 - k) % w)>>

RECURSIVE RunLoop(_, _, _, _, _, _)
RunLoop(loop, cfg, mesh, m, kind, k) ==
    IF k >= LoopCount(loop, cfg) THEN m
    ELSE RunLoop(loop, cfg, mesh,
                 LoopBody(loop, cfg, mesh, m, LoopOrder(loop, cfg, kind, k)),
                 kind, k + 1)

\* The loop nests of each sub-step, in program order.
SubStepLoops(p) ==
    CASE p = "A" -> <<"dEz_dx", "dEz_dy">>
      [] p = "B" -> <<"Hx", "Hy">>
      [] p = "C" -> <<"dHy_dx", "dHx_dy">>
      [] p = "D" -> <<"Ez">>
      [] p = "E" -> <<"shg">>
      [] p = "F" -> <<"absorption">>

RECURSIVE RunSubStep(_, _, _, _, _, _)
RunSubStep(p, cfg, mesh, m, kind, n) ==
    IF n > Len(SubStepLoops(p)) THEN m
    ELSE RunSubStep(p, cfg, mesh,
                    RunLoop(SubStepLoops(p)[n], cfg, mesh, m, kind, 0),
                    kind, n + 1)

\* The arrays as a sub-step finds them: A and C allocate their gradient
\* arrays first (g is what the fresh dEz_dy rows hold).
StartMem(p, cfg, fs, gr, g) ==
    CASE p = "A" ->
            Mem(fs, [gr EXCEPT
                       !.dEz_dx = [c \in (0 .. cfg.nx - 2) \X (0 .. cfg.ny - 1) |-> R(0)],
                       !.dEz_dy = [c \in (0 .. cfg.nx - 1) \X (0 .. cfg.ny - 2) |-> g[c[2]]]])
      [] p = "C" ->
            Mem(fs, [gr EXCEPT
                       !.dHy_dx = [c \in Interior(cfg.nx, cfg.ny) |-> R(0)],
                       !.dHx_dy = [c \in Interior(cfg.nx, cfg.ny) |-> R(0)]])
      [] OTHER -> Mem(fs, gr)

\* C20: in each loop nest of sub-steps A to F no two iterations store to the
\* same array element and no iteration loads an element another iteration of
\* that loop stores to; and, in a simulator's first run, executing the
\* iterations of the loops of the pending sub-step one at a time, in place,
\* row by row or backwards, leaves in Ez, Hx, Hy and the gradient arrays
\* exactly the values the sub-step produces.
C20_AfterSubStep(p, g) ==
    CASE p = "A" ->
            Mem(field_set,
                [grad EXCEPT
                   !.dEz_dx = compute_yee_gradients(config, field_set, g).dEz_dx,
                   !.dEz_dy = compute_yee_gradients(config, field_set, g).dEz_dy])
      [] p = "B" -> Mem(update_magnetic_fields(config, mesh_set, field_set, grad), grad)
      [] p = "C" ->
            Mem(field_set,
                [grad EXCEPT
                   !.dHy_dx = compute_magnetic_field_gradients(config, field_set).dHy_dx,
                   !.dHx_dy = compute_magnetic_field_gradients(config, field_set).dHx_dy])
      [] p = "D" -> Mem(update_electric_field(config, mesh_set, field_set, grad), grad)
      [] p = "E" -> Mem(apply_second_harmonic_generation(config, mesh_set, field_set), grad)
      [] p = "F" -> Mem(apply_absorption(config, mesh_set, field_set), grad)

VectorsMatch(src) ==
    src.kind = "MultiWavelength" =>
        /\ Len(src.amplitude_list) = Len(src.omega_list)
        /\ Len(src.delay_list) = Len(src.omega_list)

C21_MismatchRejected ==
    /\ pc \in StepPcs \cup {"crashed"} =>
          \A k \in 1 .. Len(sources) : VectorsMatch(sources[k])
    /\ "source vector" \notin oob

\* C22: Step A computes dEz/dy(i,j) = (Ez(i,j+1) - Ez(i,j))/dy for every row
\* i, row 0 included, so that Step B changes Hx(0,j) by an amount determined
\* by the current Ez only.
C22_GradientRowZero ==
    pc = "B" =>
        \A j \in 0 .. config.ny - 2 :
            grad.dEz_dy[<<0, j>>] =
                RDiv(RSub(field_set.Ez[<<0, j + 1>>], field_set.Ez[<<0, j>>]),
                     config.dy)

\* C23: Steps C and D change Ez only at strict-interior cells, where Ez(i,j)
\* increases by (dt/epsilon(i,j)) * ((Hy(i,j) - Hy(i-1,j))/dx -
\* (Hx(i,j) - Hx(i,j-1))/dy); Ez at every boundary cell and all of Hx and Hy
\* are unchanged by these steps.
CurlH(cfg, fs, c) ==
    RSub(RDiv(RSub(fs.Hy[c], fs.Hy[<<c[1] - 1, c[2]>>]), cfg.dx),
         RDiv(RSub(fs.Hx[c], fs.Hx[<<c[1], c[2] - 1>>]), cfg.dy))

C23_StepCD ==
    /\ pc = "C" => field_set' = field_set
    /\ pc = "D" =>
          /\ field_set'.Hx = field_set.Hx
          /\ field_set'.Hy = field_set.Hy
          /\ \A c \in Cells(config.nx, config.ny) :
                field_set'.Ez[c] =
                    IF IsBorder(c, config.nx, config.ny)
                    THEN field_set.Ez[c]
                    ELSE RAdd(field_set.Ez[c],
                              RMul(RDiv(config.dt, mesh_set.epsilon[c]),
                                   CurlH(config, field_set, c)))

C23_InteriorUpdate == [][C23_StepCD]_vars

C23_Witness ==
    /\ pc = "E"
    /\ \E c \in Interior(config.nx, config.ny) :
          /\ IsFinite(field_set.Ez[c])
          /\ CurlH(config, field_set, c) # R(0)

\* C24: for any sigma_x, sigma_y and dt and any epsilon > 0, Step F multiplies
\* Ez at every cell by a factor in [0,1]: afterwards Ez(i,j) is 0 or has the
\* sign it had and a magnitude not larger than before; at a cell with
\* sigma_x + sigma_y = 0 Ez is unchanged.
EpsilonPositive(mesh) ==
    \A c \in DOMAIN mesh.epsilon : RLess(R(0), mesh.epsilon[c])

RAbs(a) == IF RLess(a, R(0)) THEN RNeg(a) ELSE a

SameSignNotLarger(after, before) ==
    \/ after = R(0)
    \/ /\ after # NaN
       /\ RLess(R(0), after) <=> RLess(R(0), before)
       /\ RLess(after, R(0)) <=> RLess(before, R(0))
       /\ ~RLess(R(0), RSub(RAbs(after), RAbs(before)))

C24_StepF ==
    (pc = "F" /\ EpsilonPositive(mesh_set)) =>
        \A c \in Cells(config.nx, config.ny) :
            /\ SameSignNotLarger(field_set'.Ez[c], field_set.Ez[c])
            /\ RAdd(mesh_set.sigma_x[c], mesh_set.sigma_y[c]) = R(0) =>
                  field_set'.Ez[c] = field_set.Ez[c]

C24_AbsorptionBounded == [][C24_StepF]_vars

\* Step F has damped a nonzero Ez by a factor strictly between 0 and 1.
C24_Witness ==
    /\ pc = "G"
    /\ EpsilonPositive(mesh_set)
    /\ \E c \in Cells(config.nx, config.ny) :
          /\ field_set.Ez[c] # R(0)
          /\ RLess(R(0), AbsorptionFactor(c, config, mesh_set))
          /\ RLess(AbsorptionFactor(c, config, mesh_set), R(1))

\* C25: Step E adds gamma(i,j) * Ez(i,j)^2 * dt to Ez at every cell of the
\* full grid, boundary cells included, from the cell's own value before the
\* step; when gamma = 0 at every cell Step E leaves Ez unchanged; it never
\* changes Hx or Hy.
C25_StepE ==
    pc = "E" =>
        /\ field_set'.Hx = field_set.Hx
        /\ field_set'.Hy = field_set.Hy
        /\ \A c \in Cells(config.nx, config.ny) :
              field_set'.Ez[c] =
                  RAdd(field_set.Ez[c],
                       RMul(mesh_set.gamma[c],
                            RMul(RMul(field_set.Ez[c], field_set.Ez[c]), config.dt)))
        /\ GammaZero => field_set'.Ez = field_set.Ez

C25_SecondHarmonic == [][C25_StepE]_vars

\* Step E has acted on a nonzero Ez at a boundary cell with gamma # 0.
C25_Witness ==
    /\ pc = "F"
    /\ \E c \in Cells(config.nx, config.ny) :
          /\ IsBorder(c, config.nx, config.ny)
          /\ mesh_set.gamma[c] # R(0)
          /\ IsFinite(field_set.Ez[c])
          /\ field_set.Ez[c] # R(0)

\* C26: every call of run starts recording at row 0: at entry config.iteration
\* is 0 and config.time is its initial value, also when run was already
\* called without an intervening set_config, so a run never addresses a row
\* index >= N_steps.
C26_RunStartsAtRowZero ==
    /\ start_iter = 0
    /\ (pc = "A" /\ iteration = 0) =>
          config.time = Config(config.dx, config.dy, config.dt, config.nx,
                               config.ny, config.time_stamp).time
    /\ \A k \in 1 .. Len(rec_rows) : rec_rows[k] < N_steps

\* C27: no recorded Ez value depends on the H cells at the grid edge that the
\* Ez update never reads: two runs identical except for the values held in
\* Hx(0,j), Hx(nx-1,j), Hy(i,0), Hy(i,ny-1) produce identical Ez_time.
C27_EdgeIndependence ==
    twin.kind = "edges" =>
        /\ twin.Ez_time = Ez_time
        /\ twin.field_set.Ez = field_set.Ez

\* Both runs have recorded a second row holding a nonzero interior Ez changed
\* by Step D, with different values in the H edge cells.
C27_Witness ==
    /\ twin.kind = "edges"
    /\ pc = "I" /\ iteration = 1 /\ Len(Ez_time) >= 2 /\ oob = {}
    /\ twin.field_set.Hx # field_set.Hx
    /\ twin.field_set.Hy # field_set.Hy
    /\ \E c \in Interior(config.nx, config.ny) :
          /\ IsFinite(Ez_time[2][c])
          /\ Ez_time[2][c] # Ez_time[1][c]

\* C28: the grid edge is a fixed zero wall: if no source has an injection
\* index on a boundary cell and epsilon > 0, Ez at every boundary cell is 0
\* after every sub-step of every iteration and Ez_time[k,i,j] = 0 for every k
\* and every boundary cell, whatever gamma, sigma_x and sigma_y are.
NoBoundarySource ==
    \A idx \in AllIndexes(sources) : ~IsBorder(idx, config.nx, config.ny)

C28_ZeroWall ==
    (pc \in StepPcs /\ NoBoundarySource /\ EpsilonPositive(mesh_set)) =>
        \A c \in Cells(config.nx, config.ny) :
            IsBorder(c, config.nx, config.ny) =>
                /\ field_set.Ez[c] = R(0)
                /\ \A k \in 1 .. Len(Ez_time) : Ez_time[k][c] = R(0)

C30_LegacyEquivalent ==
    twin.kind = "legacy" =>
        /\ twin.field_set = field_set
        /\ twin.Ez_time = Ez_time
====
